---------------------------- MODULE Spec2Model ----------------------------
(***************************************************************************)
(* chessmaster.py: chess pieces (Rook, Knight, Bishop, King) with their     *)
(* legality predicates, and the ChessMatch registry with its move log.      *)
(*                                                                          *)
(* Python strings are sequences of one-character strings, so that strip(),  *)
(* lower() and concatenation are computed and not assumed.  Python values   *)
(* of differing types (bool, list, raised exception, None) are tagged       *)
(* records [type, value].                                                   *)
(***************************************************************************)
EXTENDS Integers, Sequences, FiniteSets

VARIABLES
    objs,     \* the piece objects: id -> [prefix, position, moves]
    pieces,   \* ChessMatch.pieces: dict from full-notation key to piece id
    log,      \* ChessMatch.log
    last      \* the last call made: its operation, arguments and outcome

vars == <<objs, pieces, log, last>>

----------------------------------------------------------------------------
(* Bounds *)

\* the longest match log explored
MaxLog == 2
\* the longest move history of a stand-alone piece explored
MaxMoves == 2

----------------------------------------------------------------------------
(* Python values *)

Bool(b) == [type |-> "bool", value |-> b]
Raise(e) == [type |-> "raise", value |-> e]
List(l) == [type |-> "list", value |-> l]
None == [type |-> "NoneType", value |-> "None"]

IsTrue(r) == r.type = "bool" /\ r.value = TRUE
IsFalse(r) == r.type = "bool" /\ r.value = FALSE
IsRaise(r) == r.type = "raise"

\* truth value of a Python object in an `if`
Truthy(r) ==
    CASE r.type = "bool" -> r.value
      [] r.type = "list" -> Len(r.value) > 0
      [] OTHER -> FALSE

----------------------------------------------------------------------------
(* Strings *)

Whitespace == {" "}
UpperCase == <<"A", "B", "C", "D", "E", "F", "G", "H", "I", "J", "K", "L", "M",
               "N", "O", "P", "Q", "R", "S", "T", "U", "V", "W", "X", "Y", "Z">>
LowerCase == <<"a", "b", "c", "d", "e", "f", "g", "h", "i", "j", "k", "l", "m",
               "n", "o", "p", "q", "r", "s", "t", "u", "v", "w", "x", "y", "z">>

RECURSIVE LStrip(_)
LStrip(s) ==
    IF s # <<>> /\ Head(s) \in Whitespace THEN LStrip(Tail(s)) ELSE s

RECURSIVE RStrip(_)
RStrip(s) ==
    IF s # <<>> /\ s[Len(s)] \in Whitespace
    THEN RStrip(SubSeq(s, 1, Len(s) - 1))
    ELSE s

\* str.strip()
Strip(s) == RStrip(LStrip(s))

\* the lower-case letter of each upper-case letter
LowerOf == [c \in {UpperCase[i] : i \in DOMAIN UpperCase} |->
              LowerCase[CHOOSE i \in DOMAIN UpperCase : UpperCase[i] = c]]

LowerChar(c) == IF c \in DOMAIN LowerOf THEN LowerOf[c] ELSE c

\* str.lower()
Lower(s) == [i \in 1..Len(s) |-> LowerChar(s[i])]

\* str(y) for a one-digit y
StrDigit(y) == <<"0", "1", "2", "3", "4", "5", "6", "7", "8", "9">>[y + 1]

----------------------------------------------------------------------------
(* Coordinate mapper *)

\* side of the board: 'abcdefgh', range(1, 9), xrange(8)
BoardSize == 8

Files == SubSeq(LowerCase, 1, BoardSize)

\* keys = [x + str(y) for x in 'abcdefgh' for y in range(1, 9)]
Keys ==
    [i \in 1..(BoardSize * BoardSize) |->
        <<Files[((i - 1) \div BoardSize) + 1], StrDigit(((i - 1) % BoardSize) + 1)>>]

\* values = [(x, y) for x in xrange(8) for y in xrange(8)]
Values ==
    [i \in 1..(BoardSize * BoardSize) |->
        <<(i - 1) \div BoardSize, (i - 1) % BoardSize>>]

\* the False that algebraic_to_numeric returns for a tile off the board; the
\* empty tuple, which differs from every coordinate pair
Absent == <<>>

\* boardmap = dict(zip(keys, values))
BoardMap ==
    [k \in {Keys[i] : i \in DOMAIN Keys} |->
        Values[CHOOSE i \in DOMAIN Keys : Keys[i] = k]]

\* if tile in boardmap.keys(): return boardmap[tile]; return False
BoardLookup(tile) == IF tile \in DOMAIN BoardMap THEN BoardMap[tile] ELSE Absent

AlgebraicToNumeric(tile) == BoardLookup(Lower(Strip(tile)))

\* isinstance(x, tuple)
IsTuple(x) == x # Absent

----------------------------------------------------------------------------
(* Legality predicates.  Each takes the piece's position and the candidate  *)
(* position as strings and yields Bool(..) or Raise("TypeError"): indexing  *)
(* the False of an off-board tile raises TypeError.  The return expression  *)
(* of each, over the two results of algebraic_to_numeric, is an operator of *)
(* its own.                                                                 *)

Abs(x) == IF x < 0 THEN -x ELSE x

\* Python's ordering of two coordinate pairs
TupleLE(a, b) == a[1] < b[1] \/ (a[1] = b[1] /\ a[2] <= b[2])
TupleMin(a, b) == IF TupleLE(a, b) THEN a ELSE b
TupleMax(a, b) == IF TupleLE(a, b) THEN b ELSE a

ChessPieceIsLegalMove(mine, position) ==
    Bool(IsTuple(AlgebraicToNumeric(position)))

RookLegal(mypos, test) ==
    IF mypos = Absent \/ test = Absent
    THEN Raise("TypeError")
    ELSE Bool(\/ (mypos[1] = test[1] /\ mypos[2] # test[2])
              \/ (mypos[1] # test[1] /\ mypos[2] = test[2])
              \/ mypos = test)

RookIsLegalMove(mine, position) ==
    RookLegal(AlgebraicToNumeric(mine), AlgebraicToNumeric(position))

KnightLegalLostOffset(my_piece, test) ==
    IF my_piece = Absent
    THEN Raise("TypeError")
    ELSE Bool(test \in {<<my_piece[1] + 1, my_piece[2] + 3>>,
                        <<my_piece[1] + 1, my_piece[2] - 3>>,
                        <<my_piece[1] - 1, my_piece[2] + 3>>,
                        <<my_piece[1] - 1, my_piece[2] - 3>>,
                        <<my_piece[1] + 3, my_piece[2] + 1>>,
                        <<my_piece[1] + 3, my_piece[2] - 1>>,
                        <<my_piece[1] - 3, my_piece[2] + 1>>,
                        <<my_piece[1] - 3, my_piece[2] + 1>>, my_piece})

KnightLegal(my_piece, test) ==
    IF my_piece = Absent
    THEN Raise("TypeError")
    ELSE Bool(test \in {<<my_piece[1] + 1, my_piece[2] + 3>>,
                        <<my_piece[1] + 1, my_piece[2] - 3>>,
                        <<my_piece[1] - 1, my_piece[2] + 3>>,
                        <<my_piece[1] - 1, my_piece[2] - 3>>,
                        <<my_piece[1] + 3, my_piece[2] + 1>>,
                        <<my_piece[1] + 3, my_piece[2] - 1>>,
                        <<my_piece[1] - 3, my_piece[2] + 1>>,
                        <<my_piece[1] - 3, my_piece[2] - 1>>, my_piece})

KnightIsLegalMove(mine, position) ==
    KnightLegal(AlgebraicToNumeric(mine), AlgebraicToNumeric(position))

\* the return expression of Bishop.is_legal_move, d_mypos and d_test given
BishopReturn(mypos, test, d_mypos, d_test) ==
    Bool(\/ mypos[1] + mypos[2] = test[1] + test[2]
         \/ d_test[1] = Abs(d_test[2]) - d_mypos[2]
         \/ mypos = test)

BishopLegal(mypos, test) ==
    IF mypos = Absent \/ test = Absent
    THEN Raise("TypeError")
    ELSE BishopReturn(mypos, test, TupleMin(mypos, test), TupleMax(mypos, test))

BishopIsLegalMove(mine, position) ==
    BishopLegal(AlgebraicToNumeric(mine), AlgebraicToNumeric(position))

KingLegal(mypos, test) ==
    IF mypos = Absent
    THEN Raise("TypeError")
    ELSE Bool(test \in {<<x, y>> : x \in (mypos[1] - 1)..(mypos[1] + 1),
                                   y \in (mypos[2] - 1)..(mypos[2] + 1)})

KingIsLegalMove(mine, position) ==
    KingLegal(AlgebraicToNumeric(mine), AlgebraicToNumeric(position))

\* method dispatch on the class of the piece, which its prefix names
IsLegalMove(o, position) ==
    CASE o.prefix = "R" -> RookIsLegalMove(o.position, position)
      [] o.prefix = "N" -> KnightIsLegalMove(o.position, position)
      [] o.prefix = "B" -> BishopIsLegalMove(o.position, position)
      [] o.prefix = "K" -> KingIsLegalMove(o.position, position)
      [] OTHER -> ChessPieceIsLegalMove(o.position, position)

----------------------------------------------------------------------------
(* ChessPiece *)

\* the values time.time() may return
Times == {0, 1}

\* a call's outcome on a piece: the value returned or raised, and the piece
Outcome(ret, o) == [ret |-> ret, obj |-> o]

\* the piece after position = position.strip().lower(), moves = []
Fresh(prefix, p) == [prefix |-> prefix, position |-> p, moves |-> <<>>]

\* if not self.is_legal_move(position): raise ValueError
CheckStart(legal, o) ==
    IF IsRaise(legal) THEN Outcome(legal, o)
    ELSE IF ~legal.value THEN Outcome(Raise("ValueError"), o)
    ELSE Outcome(None, o)

InitPiece(o) == CheckStart(IsLegalMove(o, o.position), o)

\* ChessPiece.__init__: ret is None when the piece is constructed
NewPiece(prefix, position) == InitPiece(Fresh(prefix, Lower(Strip(position))))

\* the tuple appended to self.moves
MoveRecord(o, position, ts) ==
    <<(<<o.prefix>> \o o.position), (<<o.prefix>> \o position), ts>>

\* self.moves.append(..); self.position = position
Displace(o, position, ts) ==
    [o EXCEPT !.moves = Append(@, MoveRecord(o, position, ts)),
              !.position = position]

\* return self.moves
ReturnMoves(o) == Outcome(List(o.moves), o)

\* the body of ChessPiece.move, the result of is_legal_move given
MoveIf(legal, o, position, ts) ==
    IF IsRaise(legal) THEN Outcome(legal, o)
    ELSE IF legal.value /\ position # o.position
    THEN ReturnMoves(Displace(o, position, ts))
    ELSE Outcome(Bool(FALSE), o)

ChessPieceMove(o, position, ts) ==
    MoveIf(IsLegalMove(o, position), o, position, ts)

----------------------------------------------------------------------------
(* ChessMatch *)

DictPop(d, k) == [x \in (DOMAIN d) \ {k} |-> d[x]]
DictSet(d, k, v) == [x \in (DOMAIN d) \cup {k} |-> IF x = k THEN v ELSE d[x]]
EmptyDict == [x \in {} |-> 0]

\* positions, in reset()
ResetPositions ==
    << <<"R", "a", "1">>, <<"R", "h", "1">>, <<"R", "a", "8">>,
       <<"R", "h", "8">>, <<"B", "c", "1">>, <<"B", "f", "1">>,
       <<"B", "c", "8">>, <<"B", "f", "8">>, <<"K", "e", "1">>, <<"K", "e", "8">> >>

\* the class and the argument of each constructor call of my_pieces
ResetCalls ==
    << <<"R", <<"a", "1">> >>, <<"R", <<"h", "1">> >>, <<"R", <<"a", "8">> >>,
       <<"R", <<"h", "8">> >>, <<"B", <<"c", "1">> >>, <<"B", <<"f", "1">> >>,
       <<"B", <<"c", "8">> >>, <<"B", <<"f", "8">> >>, <<"K", <<"e", "1">> >>,
       <<"K", <<"e", "8">> >> >>

\* my_pieces, in reset(); the piece objects are numbered by their place in it
ResetPieces ==
    [i \in DOMAIN ResetCalls |-> NewPiece(ResetCalls[i][1], ResetCalls[i][2]).obj]

\* dict(zip(positions, my_pieces))
ResetDict ==
    [k \in {ResetPositions[i] : i \in DOMAIN ResetPositions} |->
        CHOOSE i \in DOMAIN ResetPositions : ResetPositions[i] = k]

\* ChessMatch.__len__
ChessMatchLen == Len(log)

\* a call's outcome on the match: the value returned or raised, and the match
Unchanged(ret) == [ret |-> ret, objs |-> objs, pieces |-> pieces, log |-> log]

RekeyStaleKey(piece, id, my_piece, my_move) ==
    [ret |-> Bool(TRUE),
     objs |-> [objs EXCEPT ![id] = my_piece],
     pieces |-> DictSet(DictPop(pieces, piece), my_move[1], id),
     log |-> Append(log, my_move)]

RekeyNoPop(piece, id, my_piece, my_move) ==
    [ret |-> Bool(TRUE),
     objs |-> [objs EXCEPT ![id] = my_piece],
     pieces |-> DictSet(pieces, my_move[2], id),
     log |-> Append(log, my_move)]

\* the branch of ChessMatch.move taken when the piece has moved:
\* new_fn = my_move[1]; pop(piece); pieces[new_fn] = my_piece; log.append
Rekey(piece, id, my_piece, my_move) ==
    [ret |-> Bool(TRUE),
     objs |-> [objs EXCEPT ![id] = my_piece],
     pieces |-> DictSet(DictPop(pieces, piece), my_move[2], id),
     log |-> Append(log, my_move)]

MoveHeldEarlyPop(piece, id, r) ==
    IF IsRaise(r.ret) THEN Unchanged(r.ret)
    ELSE IF Truthy(r.ret)
    THEN Rekey(piece, id, r.obj, r.obj.moves[Len(r.obj.moves)])
    ELSE [ret |-> Bool(FALSE), objs |-> objs, pieces |-> DictPop(pieces, piece),
          log |-> log]

\* ChessMatch.move on a held piece, the outcome r of the piece's move given
MoveHeld(piece, id, r) ==
    IF IsRaise(r.ret) THEN Unchanged(r.ret)
    ELSE IF Truthy(r.ret)
    THEN Rekey(piece, id, r.obj, r.obj.moves[Len(r.obj.moves)])
    ELSE Unchanged(Bool(FALSE))

ChessMatchMoveSilentMiss(piece, position, ts) ==
    IF piece \notin DOMAIN pieces
    THEN Unchanged(Bool(FALSE))
    ELSE MoveHeld(piece, pieces[piece],
                  ChessPieceMove(objs[pieces[piece]], position, ts))

\* ChessMatch.move: [ret, objs, pieces, log], the state after the call
ChessMatchMove(piece, position, ts) ==
    IF piece \notin DOMAIN pieces
    THEN Unchanged(Raise("KeyError"))
    ELSE MoveHeld(piece, pieces[piece],
                  ChessPieceMove(objs[pieces[piece]], position, ts))

----------------------------------------------------------------------------
(* Inputs *)

\* every square of the board, as the harness lists them
Squares == {Keys[i] : i \in DOMAIN Keys}

\* other spellings of squares, which strip() and lower() normalise
Spellings == {<<"D", "1">>, <<" ", "e", "3">>, <<"B", "5">>, <<"e", "5", " ">>,
              <<"A", "5">>}

\* strings that name no square
Malformed == {<<"i", "9">>, <<>>, <<"a", "0">>}

\* squares tried on a stand-alone piece
PieceDests == {<<f, r>> : f \in {"b", "d", "e", "f"}, r \in {"1", "4", "5", "8"}}

\* destinations tried on the match
MatchDests == {<<"h", "1">>, <<"a", "5">>, <<"A", "5">>, <<"e", "2">>, <<"i", "9">>}

\* a label no reset key and no move gives
UnknownLabel == <<"Q", "z", "9">>

----------------------------------------------------------------------------
(* The match: ChessMatch() followed by any calls of move and reset *)

NoCall == [op |-> "__init__", label |-> <<>>, dest |-> <<>>, ret |-> None]

Init ==
    /\ objs = ResetPieces
    /\ pieces = ResetDict
    /\ log = <<>>
    /\ last = NoCall

MatchMove(piece, position) ==
    /\ Len(log) < MaxLog
    /\ \E ts \in Times :
          \E r \in {ChessMatchMove(piece, position, ts)} :
              /\ objs' = r.objs
              /\ pieces' = r.pieces
              /\ log' = r.log
              /\ last' = [op |-> "move", label |-> piece, dest |-> position,
                          ret |-> r.ret]

MatchReset ==
    /\ objs' = ResetPieces
    /\ pieces' = ResetDict
    /\ log' = <<>>
    /\ last' = [op |-> "reset", label |-> <<>>, dest |-> <<>>, ret |-> None]

Next ==
    \/ \E piece \in (DOMAIN pieces) \cup (DOMAIN ResetDict) \cup {UnknownLabel},
          position \in MatchDests : MatchMove(piece, position)
    \/ MatchReset

Spec == Init /\ [][Next]_vars

----------------------------------------------------------------------------
(* A stand-alone piece, as the harness makes them, under calls of move *)

\* MYPIECES
MyPieces ==
    {NewPiece("R", <<"d", "1">>).obj, NewPiece("B", <<"e", "3">>).obj,
     NewPiece("K", <<"b", "5">>).obj, NewPiece("N", <<"e", "5">>).obj}

PieceInit ==
    /\ \E o \in MyPieces : objs = <<o>>
    /\ pieces = EmptyDict
    /\ log = <<>>
    /\ last = NoCall

PieceMove(position) ==
    /\ Len(objs[1].moves) < MaxMoves
    /\ \E ts \in Times :
          \E r \in {ChessPieceMove(objs[1], position, ts)} :
              /\ objs' = <<r.obj>>
              /\ last' = [op |-> "move", label |-> <<>>, dest |-> position,
                          ret |-> r.ret]
    /\ UNCHANGED <<pieces, log>>

PieceNext ==
    \E position \in PieceDests \cup Spellings \cup Malformed : PieceMove(position)

PieceSpec == PieceInit /\ [][PieceNext]_vars

----------------------------------------------------------------------------
(* The legality predicates: a piece of any class constructed on any square, *)
(* asked about any destination                                              *)

Prefixes == {"R", "N", "B", "K", ""}

LegalInit ==
    /\ \E prefix \in Prefixes, position \in Squares \cup Spellings \cup Malformed :
          \E c \in {NewPiece(prefix, position)} :
              /\ c.ret = None
              /\ objs = <<c.obj>>
    /\ pieces = EmptyDict
    /\ log = <<>>
    /\ last = NoCall

PieceIsLegalMove(position) ==
    /\ last' = [op |-> "is_legal_move", label |-> <<>>, dest |-> position,
                ret |-> IsLegalMove(objs[1], position)]
    /\ UNCHANGED <<objs, pieces, log>>

LegalNext ==
    \E position \in Squares \cup Spellings \cup Malformed : PieceIsLegalMove(position)

LegalSpec == LegalInit /\ [][LegalNext]_vars


----------------------------------------------------------------------------
(* Properties *)

Variants == {"R", "N", "B", "K"}

\* the full-notation label of a piece object: its prefix and its position
FullNotation(o) == <<o.prefix>> \o o.position

\* the last call was a move that succeeded
MoveSucceeded(l) == l.op = "move" /\ ~IsFalse(l.ret) /\ ~IsRaise(l.ret)

\* C1: in a match made by reset(), after any moves, every key of the pieces
\* dict is the prefix of the piece it maps to followed by that piece's
\* position.
C1_KeyIsPrefixAndPosition ==
    \A k \in DOMAIN pieces : k = FullNotation(objs[pieces[k]])

\* two moves have succeeded, one of them to a destination not spelled in
\* lower case
C1_Witness ==
    /\ MoveSucceeded(last)
    /\ Len(log) >= 2
    /\ \E k \in DOMAIN pieces : k \notin DOMAIN ResetDict /\ LowerChar(k[2]) # k[2]

\* C2: when ChessMatch.move(label, destination) returns True, the old key is
\* gone from the dict, the key prefix + destination maps to the piece the old
\* key mapped to, and len(match) has grown by exactly 1.
C2_SuccessRekeys ==
    [][(last'.op = "move" /\ IsTrue(last'.ret)) =>
          /\ last'.label \in DOMAIN pieces
          /\ last'.label \notin DOMAIN pieces'
          /\ LET new_key == <<objs[pieces[last'.label]].prefix>> \o last'.dest
             IN  /\ new_key \in DOMAIN pieces'
                 /\ pieces'[new_key] = pieces[last'.label]
          /\ ChessMatchLen' = ChessMatchLen + 1]_vars

\* move("Ra1", "a5") has returned True
C2_Witness ==
    /\ last.op = "move" /\ IsTrue(last.ret)
    /\ last.label = <<"R", "a", "1">> /\ last.dest = <<"a", "5">>
    /\ <<"R", "a", "5">> \in DOMAIN pieces

\* C3: when ChessMatch.move is called with a label the dict holds and the
\* piece's move returns False, the call returns False and the dict, the log
\* and every piece's position and history are unchanged.
C3_FailureChangesNothing ==
    [][(/\ last'.op = "move"
        /\ last'.label \in DOMAIN pieces
        /\ \A ts \in Times :
              IsFalse(ChessPieceMove(objs[pieces[last'.label]], last'.dest, ts).ret))
       => (IsFalse(last'.ret) /\ UNCHANGED <<objs, pieces, log>>)]_vars

\* a move of a held piece has returned False after an earlier move succeeded
C3_Witness ==
    /\ last.op = "move" /\ IsFalse(last.ret)
    /\ last.label \in DOMAIN pieces
    /\ Len(log) > 0

\* C4: ChessMatch.move with a label that is no key of the dict ends in the
\* lookup's error, neither True nor False, and leaves the dict, the log and
\* the pieces unchanged.
C4_UnknownLabelRaises ==
    [][(last'.op = "move" /\ last'.label \notin DOMAIN pieces)
       => /\ IsRaise(last'.ret) /\ last'.ret.value = "KeyError"
          /\ UNCHANGED <<objs, pieces, log>>]_vars

\* move("Qz9", ..) has raised
C4_Witness ==
    /\ last.op = "move" /\ last.label = UnknownLabel
    /\ IsRaise(last.ret)
    /\ Len(log) > 0

\* C5: for every variant, move with a destination that denotes the piece's
\* current square returns False, appends nothing to the history and leaves
\* the position unchanged.
C5_NoOpRejected ==
    [][(/\ last'.op = "move"
        /\ objs[1].prefix \in Variants
        /\ AlgebraicToNumeric(last'.dest) # Absent
        /\ AlgebraicToNumeric(last'.dest) = AlgebraicToNumeric(objs[1].position))
       => (IsFalse(last'.ret) /\ objs' = objs)]_vars

\* C6: a successful move(destination) appends exactly one record (prefix + old
\* position, prefix + destination, timestamp) to the history, leaves the
\* earlier entries alone, sets position to destination and returns that
\* record.
C6_MoveReturnsRecord ==
    [][MoveSucceeded(last') =>
          \E ts \in Times :
             LET record == MoveRecord(objs[1], last'.dest, ts)
             IN  /\ objs'[1].moves = Append(objs[1].moves, record)
                 /\ objs'[1].position = last'.dest
                 /\ last'.ret.type = "tuple"
                 /\ last'.ret.value = record]_vars

\* C7: for every variant on a valid square, is_legal_move(destination) returns
\* False, raising nothing, when destination is none of the 64 squares.
C7_OffBoardIsIllegal ==
    (/\ last.op = "is_legal_move"
     /\ objs[1].prefix \in Variants
     /\ AlgebraicToNumeric(last.dest) = Absent)
    => IsFalse(last.ret)

\* C8: for valid squares (f1, r1) and (f2, r2), Bishop.is_legal_move returns
\* True if and only if |f1 - f2| = |r1 - r2|.
C8_BishopDiagonal ==
    (/\ last.op = "is_legal_move"
     /\ objs[1].prefix = "B"
     /\ AlgebraicToNumeric(last.dest) # Absent)
    => LET mypos == AlgebraicToNumeric(objs[1].position)
           test == AlgebraicToNumeric(last.dest)
       IN  /\ last.ret.type = "bool"
           /\ last.ret.value = (Abs(mypos[1] - test[1]) = Abs(mypos[2] - test[2]))

\* C9: for valid squares (f1, r1) and (f2, r2), Knight.is_legal_move returns
\* True if and only if (|f1 - f2|, |r1 - r2|) is (1, 3) or (3, 1), or the two
\* squares are the same.
C9_KnightOffsets ==
    (/\ last.op = "is_legal_move"
     /\ objs[1].prefix = "N"
     /\ AlgebraicToNumeric(last.dest) # Absent)
    => LET mypos == AlgebraicToNumeric(objs[1].position)
           test == AlgebraicToNumeric(last.dest)
           d == Abs(mypos[1] - test[1])
           e == Abs(mypos[2] - test[2])
       IN  /\ last.ret.type = "bool"
           /\ last.ret.value = ((d = 1 /\ e = 3) \/ (d = 3 /\ e = 1) \/ mypos = test)

\* Knight('e5').is_legal_move('f8') has returned True
C9_Witness ==
    /\ last.op = "is_legal_move"
    /\ objs[1].prefix = "N" /\ objs[1].position = <<"e", "5">>
    /\ last.dest = <<"f", "8">>
    /\ IsTrue(last.ret)

\* C10: in a match made by reset(), no moves change the number of pieces the
\* dict holds: all ten pieces stay reachable under distinct keys.
C10_TenPiecesKept ==
    /\ Cardinality(DOMAIN pieces) = Len(ResetPieces)
    /\ \A id \in DOMAIN ResetPieces : \E k \in DOMAIN pieces : pieces[k] = id

=============================================================================
